---- MODULE Spec2Model ----
(***************************************************************************)
(* Model of the markdown template preprocessor (src/main.rs).              *)
(*                                                                         *)
(* Text is modelled as a sequence of tokens.  Every token is a literal     *)
(* piece of text: either one character ("/", ".", "#", a word character,   *)
(* a blank, a newline) or one of the multi-character literals the regular  *)
(* expressions and format strings of the program are built from.  No       *)
(* multi-character token can be split so that one of its parts completes   *)
(* a match of one of the program's patterns, so matching on tokens agrees  *)
(* with matching on the characters they stand for.                         *)
(***************************************************************************)
EXTENDS Naturals, Sequences, FiniteSets

VARIABLES
    pc,          \* position of main(): a stage of MainOrder, "done" or "failed"
    cause,       \* why the run aborted ("none" while it has not)
    mode,        \* build_context.mode
    input_file,  \* build_context.input_file, as given on the command line
    fs,          \* fragment files: canonical path -> content, or NoFile
    orig,        \* content of the input document
    content,     \* the String handed to the running transform / input_content
    pos,         \* replace_all: where the search for the next match resumes
    acc,         \* replace_all: the text built so far
    output,      \* the destination file
    output0,     \* the destination file when the run started
    reads,       \* canonical paths of the fragment files opened, in order
    resolved     \* one record per directive resolved (closure call), in order

vars == <<pc, cause, mode, input_file, fs, orig, content, pos, acc,
          output, output0, reads, resolved>>

----------------------------------------------------------------------------
\* Tokens

LOI   == "{{link or include|"
INC   == "{{include|"
CLOSE == "}}"
SL    == "/"
DOT   == "."
W     == "a"
MD    == ".md"
NL    == "\n"
HASH  == "#"
SP    == " "
START == "<!-- START -->"
END   == "<!-- END -->"
MIG   == "This section is migrated. Please see ["
LNK   == "](./"
RP    == ")"
DETAILS == "<details><summary>"
CONTENTOF == "content of "
SUMEND  == "</summary>\n\n"
DETEND  == "\n</details>"

\* what \w matches
IsWord(t) == t = W

\* what an unescaped . of a pattern matches: any one character but a newline
AnyChar == {W, DOT, SL, HASH, SP, RP}

\* what [\w.] matches (".md" is a dot and two word characters)
IsWordOrDot(t) == t = W \/ t = DOT \/ t = MD

----------------------------------------------------------------------------
\* Pattern matching

RECURSIVE WordRunEnd(_, _)
\* \w+ (greedy) from i: the index after the run; i when the run is empty
WordRunEnd(s, i) ==
    IF i <= Len(s) /\ IsWord(s[i]) THEN WordRunEnd(s, i + 1) ELSE i

RECURSIVE NameRunEnd(_, _)
\* [\w.]+ (greedy) from i
NameRunEnd(s, i) ==
    IF i <= Len(s) /\ IsWordOrDot(s[i]) THEN NameRunEnd(s, i + 1) ELSE i

RECURSIVE SegmentsEnd(_, _)
\* (?:\w+/)+ (greedy) from i: the index after the last segment; i when none
SegmentsEnd(s, i) ==
    LET j == WordRunEnd(s, i)
    IN  IF j > i /\ j <= Len(s) /\ s[j] = SL THEN SegmentsEnd(s, j + 1) ELSE i

NoMatch == [found |-> FALSE, next |-> 0, file_path |-> <<>>, file_name |-> <<>>]

\* \{\{link or include\|./((?:\w+/)+)(\w+\.md)\}\} anchored at i
LinkOrIncludeMatch(s, i) ==
    IF i + 2 <= Len(s) /\ s[i] = LOI /\ s[i + 1] \in AnyChar /\ s[i + 2] = SL
    THEN LET p == i + 3
             e == SegmentsEnd(s, p)
             f == WordRunEnd(s, e)
         IN  IF e > p /\ f > e /\ f + 1 <= Len(s) /\ s[f] = MD /\ s[f + 1] = CLOSE
             THEN [found |-> TRUE, next |-> f + 2,
                   file_path |-> SubSeq(s, p, e - 1),
                   file_name |-> SubSeq(s, e, f)]
             ELSE NoMatch
    ELSE NoMatch

\* AlwaysIncludeMatch with the closing \}\} left out of the pattern
AlwaysIncludeMatchUnclosed(s, i) ==
    IF i + 2 <= Len(s) /\ s[i] = INC /\ s[i + 1] \in AnyChar /\ s[i + 2] = SL
    THEN LET p == i + 3
             e == SegmentsEnd(s, p)
             f == NameRunEnd(s, e)
         IN  IF e > p /\ f > e
             THEN [found |-> TRUE, next |-> f,
                   file_path |-> SubSeq(s, p, e - 1),
                   file_name |-> SubSeq(s, e, f - 1)]
             ELSE NoMatch
    ELSE NoMatch

\* \{\{include\|./((?:\w+/)+)([\w.]+)\}\} anchored at i
AlwaysIncludeMatch(s, i) ==
    IF i + 2 <= Len(s) /\ s[i] = INC /\ s[i + 1] \in AnyChar /\ s[i + 2] = SL
    THEN LET p == i + 3
             e == SegmentsEnd(s, p)
             f == NameRunEnd(s, e)
         IN  IF e > p /\ f > e /\ f <= Len(s) /\ s[f] = CLOSE
             THEN [found |-> TRUE, next |-> f + 1,
                   file_path |-> SubSeq(s, p, e - 1),
                   file_name |-> SubSeq(s, e, f - 1)]
             ELSE NoMatch
    ELSE NoMatch

RECURSIVE NextLinkOrInclude(_, _)
\* the leftmost match at or after i (0 when there is none)
NextLinkOrInclude(s, i) ==
    IF i > Len(s) THEN 0
    ELSE IF LinkOrIncludeMatch(s, i).found THEN i
    ELSE NextLinkOrInclude(s, i + 1)

RECURSIVE NextAlwaysInclude(_, _)
NextAlwaysInclude(s, i) ==
    IF i > Len(s) THEN 0
    ELSE IF AlwaysIncludeMatch(s, i).found THEN i
    ELSE NextAlwaysInclude(s, i + 1)

----------------------------------------------------------------------------
\* Header shifting and fragment extraction

RECURSIVE IndexFrom(_, _, _)
\* the first index >= i holding t (0 when there is none)
IndexFrom(s, t, i) ==
    IF i > Len(s) THEN 0
    ELSE IF s[i] = t THEN i
    ELSE IndexFrom(s, t, i + 1)

RECURSIVE LastIndexFrom(_, _, _)
\* the last index >= i holding t (0 when there is none)
LastIndexFrom(s, t, i) ==
    LET j == IndexFrom(s, t, i)
    IN  IF j = 0 THEN 0
        ELSE LET k == LastIndexFrom(s, t, j + 1) IN IF k = 0 THEN j ELSE k

RECURSIVE HashRunEnd(_, _, _)
\* #{1,n} (greedy) from i
HashRunEnd(s, i, n) ==
    IF n > 0 /\ i <= Len(s) /\ s[i] = HASH THEN HashRunEnd(s, i + 1, n - 1) ELSE i

MaxHeaderLevel == 5

\* one line under (?m)^(#{1,5})(.*)$ and its replacement "#{header}{headline_text}"
HeaderLine(line) ==
    LET h == HashRunEnd(line, 1, MaxHeaderLevel)
    IN  IF h > 1
        THEN <<HASH>> \o SubSeq(line, 1, h - 1) \o SubSeq(line, h, Len(line))
        ELSE line

RECURSIVE HeaderShift(_)
\* header_pat.replace_all: every line of the text, line terminators kept
HeaderShift(s) ==
    LET e == IndexFrom(s, NL, 1)
    IN  IF e = 0 THEN HeaderLine(s)
        ELSE HeaderLine(SubSeq(s, 1, e - 1)) \o <<NL>>
                 \o HeaderShift(SubSeq(s, e + 1, Len(s)))

RECURSIVE IncludeCaptures(_, _)
\* include_pat.captures_iter from i: group 1 of every match of
\* <!-- START -->\n?((.|\n)*)<!-- END -->, whose (.|\n)* is greedy
IncludeCaptures(buf, i) ==
    LET st == IndexFrom(buf, START, i)
        en == IF st = 0 THEN 0 ELSE LastIndexFrom(buf, END, st + 1)
    IN  IF st = 0 \/ en = 0 THEN <<>>
        ELSE LET b == IF buf[st + 1] = NL THEN st + 2 ELSE st + 1
             IN  <<SubSeq(buf, b, en - 1)>> \o IncludeCaptures(buf, en + 1)

RECURSIVE Flatten(_)
\* the concatenation of a sequence of texts
Flatten(ps) == IF ps = <<>> THEN <<>> ELSE Head(ps) \o Flatten(Tail(ps))

RECURSIVE ShiftAndJoin(_)
\* .map(header shift).join("")
ShiftAndJoin(caps) ==
    IF caps = <<>> THEN <<>> ELSE HeaderShift(Head(caps)) \o ShiftAndJoin(Tail(caps))

\* including_text of the Static arm
StaticIncludingText(buf) == ShiftAndJoin(IncludeCaptures(buf, 1))

\* SpoilerIncludingText without the header shift
SpoilerIncludingTextUnshifted(buf) == Flatten(IncludeCaptures(buf, 1))

\* including_text of the Spoiler arm
SpoilerIncludingText(buf) == ShiftAndJoin(IncludeCaptures(buf, 1))

----------------------------------------------------------------------------
\* Paths and fragment files

\* the directory the relative paths of the model resolve against
Cwd == <<SL, W, SL>>

RECURSIVE LastSlash(_, _)
\* the index of the last "/" at or before i (0 when there is none)
LastSlash(p, i) ==
    IF i = 0 THEN 0 ELSE IF p[i] = SL THEN i ELSE LastSlash(p, i - 1)

\* PathBuf::pop: the path without its last component
Pop(p) ==
    LET k == LastSlash(p, Len(p))
    IN  IF k = 0 THEN <<>> ELSE IF k = 1 THEN <<SL>> ELSE SubSeq(p, 1, k - 1)

\* Path::join with a relative path
PathJoin(base, rel) ==
    IF base = <<>> THEN rel
    ELSE IF base[Len(base)] = SL THEN base \o rel
    ELSE base \o <<SL>> \o rel

\* cloned_path.join(file_path).join(file_name), cloned_path the input's directory
TargetPath(in, file_path, file_name) ==
    PathJoin(PathJoin(Pop(in), file_path), file_name)

\* the absolute path Path::canonicalize yields for a path that exists
Canonicalize(p) == IF p # <<>> /\ p[1] = SL THEN p ELSE Cwd \o p

NoFile == [exists |-> FALSE, text |-> <<>>]

FileOf(text) == [exists |-> TRUE, text |-> text]

\* the file at a canonical path
FileAt(files, p) == IF p \in DOMAIN files THEN files[p] ELSE NoFile

----------------------------------------------------------------------------
\* The replacement closures

\* DynamicLink with the directory segments left out of the link target
DynamicLinkNoDir(file_path, file_name) ==
    <<MIG>> \o file_name \o <<LNK>> \o file_name \o <<RP>>

\* Dynamic arm
DynamicLink(file_path, file_name) ==
    <<MIG>> \o file_name \o <<LNK>> \o (file_path \o file_name) \o <<RP>>

\* Spoiler arm: pasting_text
SpoilerText(target_path, buf) ==
    <<DETAILS, CONTENTOF>> \o target_path \o <<SUMEND>>
        \o SpoilerIncludingText(buf) \o <<DETEND>>

\* Static arm
StaticText(buf) == StaticIncludingText(buf)

\* AlwaysIncludeText with the marker extraction of the Static arm applied
AlwaysIncludeTextExtracted(buf) == StaticIncludingText(buf)

\* AlwaysInclude: including_text
AlwaysIncludeText(buf) == buf

\* the closure of LinkOrInclude::transform on one match:
\* ok is FALSE when canonicalize/open/read panics
LinkOrIncludeReplace(m) ==
    LET target == TargetPath(input_file, m.file_path, m.file_name)
        canon  == Canonicalize(target)
        file   == FileAt(fs, canon)
    IN  IF mode = "Dynamic"
        THEN [ok |-> TRUE, path |-> <<>>, text |-> DynamicLink(m.file_path, m.file_name)]
        ELSE IF ~file.exists
        THEN [ok |-> FALSE, path |-> canon, text |-> <<>>]
        ELSE IF mode = "Spoiler"
        THEN [ok |-> TRUE, path |-> canon, text |-> SpoilerText(target, file.text)]
        ELSE [ok |-> TRUE, path |-> canon, text |-> StaticText(file.text)]

\* the closure of AlwaysInclude::transform on one match
AlwaysIncludeReplace(m) ==
    LET target == TargetPath(input_file, m.file_path, m.file_name)
        canon  == Canonicalize(target)
        file   == FileAt(fs, canon)
    IN  IF ~file.exists
        THEN [ok |-> FALSE, path |-> canon, text |-> <<>>]
        ELSE [ok |-> TRUE, path |-> canon, text |-> AlwaysIncludeText(file.text)]

----------------------------------------------------------------------------
\* Inputs

\* how many pieces an input document is made of
MaxPieces == 2

LoiTag     == <<LOI, DOT, SL, W, SL, W, MD, CLOSE>>  \* {{link or include|./a/a.md}}
IncTag     == <<INC, DOT, SL, W, SL, W, CLOSE>>      \* {{include|./a/a}}
IncTagMd   == <<INC, DOT, SL, W, SL, W, MD, CLOSE>>  \* {{include|./a/a.md}}
BadLoiTag  == <<LOI, W, SL, W, SL, W, MD, CLOSE>>    \* {{link or include|a/a/a.md}}
BadIncTag  == <<INC, W, SL, W, SL, W, CLOSE>>        \* {{include|a/a/a}}
Unclosed   == <<INC, DOT, SL, W, SL, W>>             \* {{include|./a/a
PlainText  == <<HASH, W, SP>>                        \* "#a "

Pieces == {LoiTag, IncTag, IncTagMd, BadLoiTag, BadIncTag, Unclosed, PlainText}

Documents ==
    {Flatten(ps) : ps \in UNION {[1..n -> Pieces] : n \in 0..MaxPieces}}

\* the fragment files a tag of the documents can name
FragMd  == <<SL, W, SL, W, SL, W, MD>>   \* /a/a/a.md
FragRaw == <<SL, W, SL, W, SL, W>>       \* /a/a/a

SixHashes == <<HASH, HASH, HASH, HASH, HASH, HASH>>

MdContents ==
    { <<W, NL, HASH, W>>,                                   \* no markers
      <<HASH, W, NL, START, NL, HASH, W, NL, W, END, W>>,   \* one pair
      <<START, W, END, SP, START, HASH, W, END>>,           \* two pairs
      <<START>> \o SixHashes \o <<W, NL, NL, W, END>>,      \* a level-6 heading
      <<START>> \o IncTag \o <<END>>,                       \* a tag in a fragment
      <<START, CLOSE, END>> }                               \* "}}"

RawContents == { <<HASH, W, NL>> \o LoiTag \o IncTag }

FileSystems ==
    { [p \in {FragMd, FragRaw} |-> IF p = FragMd THEN m ELSE r] :
        m \in {NoFile} \cup {FileOf(c) : c \in MdContents},
        r \in {NoFile} \cup {FileOf(c) : c \in RawContents} }

InputFiles == { <<W, MD>>, <<SL, W, SL, W, MD>> }    \* a.md and /a/a.md

Modes == {"Dynamic", "Static", "Spoiler"}

\* the destination before the run, when the output path is not a directory
Outputs == { [kind |-> "absent", text |-> <<>>],
             [kind |-> "file", text |-> <<W>>] }

----------------------------------------------------------------------------
\* main()

\* MainOrder with the destination opened before the passes run
MainOrderOpenFirst ==
    <<"validate", "read_input", "open_output", "link_or_include",
      "always_include", "write_output">>

\* the order of the steps of main
MainOrder ==
    <<"validate", "read_input", "link_or_include", "always_include",
      "open_output", "write_output">>

StageIndex(stage) == CHOOSE k \in 1..Len(MainOrder) : MainOrder[k] = stage

\* the step that follows a completed one
After(stage) ==
    IF StageIndex(stage) = Len(MainOrder) THEN "done"
    ELSE MainOrder[StageIndex(stage) + 1]

Init ==
    /\ pc = MainOrder[1]
    /\ cause = "none"
    /\ mode \in Modes
    /\ input_file \in InputFiles
    /\ fs \in FileSystems
    /\ orig \in Documents
    /\ content = <<>>
    /\ pos = 1
    /\ acc = <<>>
    /\ output \in Outputs
    /\ output0 = output
    /\ reads = <<>>
    /\ resolved = <<>>

Abort(why) ==
    /\ pc' = "failed"
    /\ cause' = why

\* Args::parse().validate().unwrap()
Validate ==
    /\ pc = "validate"
    /\ \E problem \in {"none", "bad build mode", "input is a directory",
                       "input is missing", "output is a directory"} :
          IF problem # "none"
          THEN Abort("arguments")
          ELSE pc' = After(pc) /\ cause' = cause
    /\ UNCHANGED <<mode, input_file, fs, orig, content, pos, acc, output,
                   output0, reads, resolved>>

\* File::open(&args.input_file) and read_to_string
ReadInput ==
    /\ pc = "read_input"
    /\ \E readable \in BOOLEAN :
          IF readable
          THEN /\ content' = orig
               /\ pc' = After(pc)
               /\ cause' = cause
          ELSE /\ Abort("input file")
               /\ content' = content
    /\ UNCHANGED <<mode, input_file, fs, orig, pos, acc, output, output0,
                   reads, resolved>>

\* one call of the closure of LinkOrInclude::transform by replace_all
LinkOrIncludeStep ==
    /\ pc = "link_or_include"
    /\ NextLinkOrInclude(content, pos) # 0
    /\ LET i == NextLinkOrInclude(content, pos)
           m == LinkOrIncludeMatch(content, i)
           r == LinkOrIncludeReplace(m)
       IN  /\ reads' = IF mode = "Dynamic" THEN reads ELSE Append(reads, r.path)
           /\ IF r.ok
              THEN /\ acc' = acc \o SubSeq(content, pos, i - 1) \o r.text
                   /\ pos' = m.next
                   /\ resolved' = Append(resolved,
                         [kind |-> "link or include",
                          tag |-> SubSeq(content, i, m.next - 1),
                          path |-> r.path, text |-> r.text])
                   /\ UNCHANGED <<pc, cause>>
              ELSE /\ Abort("link or include fragment")
                   /\ UNCHANGED <<acc, pos, resolved>>
    /\ UNCHANGED <<mode, input_file, fs, orig, content, output, output0>>

\* replace_all of LinkOrInclude::transform has no match left: the result
LinkOrIncludeEnd ==
    /\ pc = "link_or_include"
    /\ NextLinkOrInclude(content, pos) = 0
    /\ content' = acc \o SubSeq(content, pos, Len(content))
    /\ pos' = 1
    /\ acc' = <<>>
    /\ pc' = After(pc)
    /\ UNCHANGED <<cause, mode, input_file, fs, orig, output, output0, reads,
                   resolved>>

\* one call of the closure of AlwaysInclude::transform by replace_all
AlwaysIncludeStep ==
    /\ pc = "always_include"
    /\ NextAlwaysInclude(content, pos) # 0
    /\ LET i == NextAlwaysInclude(content, pos)
           m == AlwaysIncludeMatch(content, i)
           r == AlwaysIncludeReplace(m)
       IN  /\ reads' = Append(reads, r.path)
           /\ IF r.ok
              THEN /\ acc' = acc \o SubSeq(content, pos, i - 1) \o r.text
                   /\ pos' = m.next
                   /\ resolved' = Append(resolved,
                         [kind |-> "include",
                          tag |-> SubSeq(content, i, m.next - 1),
                          path |-> r.path, text |-> r.text])
                   /\ UNCHANGED <<pc, cause>>
              ELSE /\ Abort("include fragment")
                   /\ UNCHANGED <<acc, pos, resolved>>
    /\ UNCHANGED <<mode, input_file, fs, orig, content, output, output0>>

\* replace_all of AlwaysInclude::transform has no match left: the result
AlwaysIncludeEnd ==
    /\ pc = "always_include"
    /\ NextAlwaysInclude(content, pos) = 0
    /\ content' = acc \o SubSeq(content, pos, Len(content))
    /\ pos' = 1
    /\ acc' = <<>>
    /\ pc' = After(pc)
    /\ UNCHANGED <<cause, mode, input_file, fs, orig, output, output0, reads,
                   resolved>>

\* File::options().write(true).create(true).truncate(true).open(..).unwrap()
OpenOutput ==
    /\ pc = "open_output"
    /\ \E writable \in BOOLEAN :
          IF writable
          THEN /\ output' = [kind |-> "file", text |-> <<>>]
               /\ pc' = After(pc)
               /\ cause' = cause
          ELSE /\ Abort("output file")
               /\ output' = output
    /\ UNCHANGED <<mode, input_file, fs, orig, content, pos, acc, output0,
                   reads, resolved>>

\* output.write_all(input_content.as_bytes())
WriteOutput ==
    /\ pc = "write_output"
    /\ \E written \in BOOLEAN :
          IF written
          THEN /\ output' = [kind |-> "file", text |-> content]
               /\ pc' = After(pc)
               /\ cause' = cause
          ELSE /\ Abort("write")
               /\ output' = output
    /\ UNCHANGED <<mode, input_file, fs, orig, content, pos, acc, output0,
                   reads, resolved>>

Next ==
    \/ Validate
    \/ ReadInput
    \/ LinkOrIncludeStep
    \/ LinkOrIncludeEnd
    \/ AlwaysIncludeStep
    \/ AlwaysIncludeEnd
    \/ OpenOutput
    \/ WriteOutput

Spec == Init /\ [][Next]_vars

----------------------------------------------------------------------------
\* Vocabulary of the properties

AfterLinkOrInclude == {"always_include", "open_output", "write_output", "done"}

IsLinkOrInclude(r) == r.kind = "link or include"
IsInclude(r) == r.kind = "include"

\* text of the shape {{link or include|...}} or {{include|...}}
HasTagText(s) ==
    \E i \in 1..Len(s), j \in 1..Len(s) :
        i < j /\ s[i] \in {LOI, INC} /\ s[j] = CLOSE

\* <dirpath><filename> of a tag: what lies between the "./" and the "}}"
TagPath(tag) == SubSeq(tag, 4, Len(tag) - 1)

\* <filename> of a tag: what follows the last "/"
TagFileName(tag) ==
    LET p == TagPath(tag) IN SubSeq(p, LastSlash(p, Len(p)) + 1, Len(p))

\* the fragment path of a tag, joined to the directory of the input document
\* as the command line names it
JoinedPath(tag) ==
    LET d == Pop(input_file)
    IN  IF d = <<>> THEN TagPath(tag)
        ELSE IF d[Len(d)] = SL THEN d \o TagPath(tag)
        ELSE d \o <<SL>> \o TagPath(tag)

\* the tags of a text at or after i, counted
RECURSIVE CountLinkOrInclude(_, _)
CountLinkOrInclude(s, i) ==
    LET k == NextLinkOrInclude(s, i)
    IN  IF k = 0 THEN 0
        ELSE 1 + CountLinkOrInclude(s, LinkOrIncludeMatch(s, k).next)

RECURSIVE CountAlwaysInclude(_, _)
CountAlwaysInclude(s, i) ==
    LET k == NextAlwaysInclude(s, i)
    IN  IF k = 0 THEN 0
        ELSE 1 + CountAlwaysInclude(s, AlwaysIncludeMatch(s, k).next)

CountResolved(kind) ==
    Cardinality({k \in 1..Len(resolved) : resolved[k].kind = kind})

\* the START/END markers of a fragment, in order
Markers(buf) == SelectSeq(buf, LAMBDA t : t = START \/ t = END)

\* k >= 0 marker pairs, none nested
NonNested(buf) ==
    LET ms == Markers(buf)
    IN  /\ Len(ms) % 2 = 0
        /\ \A j \in 1..Len(ms) : ms[j] = IF j % 2 = 1 THEN START ELSE END

RECURSIVE PairwiseExtract(_, _)
\* every text between a START and the first END after it, one newline after
\* START dropped, header-shifted, concatenated
PairwiseExtract(buf, i) ==
    LET st == IndexFrom(buf, START, i)
        en == IF st = 0 THEN 0 ELSE IndexFrom(buf, END, st + 1)
    IN  IF st = 0 \/ en = 0 THEN <<>>
        ELSE LET b == IF buf[st + 1] = NL THEN st + 2 ELSE st + 1
             IN  HeaderShift(SubSeq(buf, b, en - 1)) \o PairwiseExtract(buf, en + 1)

\* a line with 1 to 5 leading "#" gains one; any other line is left as it is
CappedHeaderLine(line) ==
    LET n == HashRunEnd(line, 1, Len(line)) - 1
    IN  IF n >= 1 /\ n <= MaxHeaderLevel THEN <<HASH>> \o line ELSE line

RECURSIVE CappedHeaderShift(_)
CappedHeaderShift(s) ==
    LET e == IndexFrom(s, NL, 1)
    IN  IF e = 0 THEN CappedHeaderLine(s)
        ELSE CappedHeaderLine(SubSeq(s, 1, e - 1)) \o <<NL>>
                 \o CappedHeaderShift(SubSeq(s, e + 1, Len(s)))

RECURSIVE CappedShiftAndJoin(_)
CappedShiftAndJoin(caps) ==
    IF caps = <<>> THEN <<>>
    ELSE CappedHeaderShift(Head(caps)) \o CappedShiftAndJoin(Tail(caps))

\* the extracted text within the replacement of a Static or Spoiler resolution
ExtractedPart(r) ==
    IF mode = "Spoiler"
    THEN SubSeq(r.text, Len(JoinedPath(r.tag)) + 4, Len(r.text) - 1)
    ELSE r.text

RECURSIVE ResolveOriginal(_, _)
\* the text from i on with each of its own tags replaced by that tag's replacement
ResolveOriginal(s, i) ==
    IF i > Len(s) THEN <<>>
    ELSE IF LinkOrIncludeMatch(s, i).found
    THEN LinkOrIncludeReplace(LinkOrIncludeMatch(s, i)).text
             \o ResolveOriginal(s, LinkOrIncludeMatch(s, i).next)
    ELSE IF AlwaysIncludeMatch(s, i).found
    THEN AlwaysIncludeReplace(AlwaysIncludeMatch(s, i)).text
             \o ResolveOriginal(s, AlwaysIncludeMatch(s, i).next)
    ELSE <<s[i]>> \o ResolveOriginal(s, i + 1)

----------------------------------------------------------------------------
\* Properties

\* C1: an input without {{link or include|...}} and {{include|...}} text comes
\* out of both passes equal to itself, in every mode, and no fragment is opened.
C1_IdentityLaw ==
    ~HasTagText(orig) =>
        /\ reads = <<>>
        /\ resolved = <<>>
        /\ pc \in AfterLinkOrInclude \cup {"link_or_include"} => content = orig
        /\ pc = "done" => output.text = orig

C1_Witness ==
    /\ pc = "done"
    /\ mode = "Static"
    /\ ~HasTagText(orig)
    /\ \E i \in 1..Len(orig) : orig[i] = INC
    /\ output.text = orig

\* C2: the final output is the original input with each directive tag of the
\* original input replaced by its own replacement, the rest passed through.
C2_PassThrough ==
    pc = "done" => output.text = ResolveOriginal(orig, 1)

\* C3: no file is read, and no tag resolved, on behalf of a tag that was not
\* in the original input: fragments are never expanded recursively.
C3_NoRecursiveExpansion ==
    /\ CountResolved("include") <= CountAlwaysInclude(orig, 1)
    /\ CountResolved("link or include") <= CountLinkOrInclude(orig, 1)
    /\ Len(reads) <= CountAlwaysInclude(orig, 1) + CountLinkOrInclude(orig, 1)

\* C4: the destination is untouched until both passes have completed, and a run
\* aborted by argument validation, the input file or a fragment leaves it as
\* it was.
C4_NoOutputOnFatalError ==
    /\ pc \in {"validate", "read_input", "link_or_include", "always_include",
               "open_output"} => output = output0
    /\ ( /\ pc = "failed"
         /\ cause \in {"arguments", "input file", "link or include fragment",
                       "include fragment"} ) => output = output0

C4_Witness ==
    /\ pc = "failed"
    /\ cause = "include fragment"
    /\ Len(resolved) >= 1
    /\ output0.kind = "file"
    /\ output = output0

\* C5: for a fragment of k >= 0 non-nested marker pairs a Static tag inserts the
\* concatenation of the k texts between each START and the first END after it.
C5_FragmentExtraction ==
    \A k \in 1..Len(resolved) :
        ( /\ IsLinkOrInclude(resolved[k])
          /\ mode = "Static"
          /\ NonNested(FileAt(fs, resolved[k].path).text) )
        => resolved[k].text = PairwiseExtract(FileAt(fs, resolved[k].path).text, 1)

\* C6: in an extracted text a line with 1 to 5 leading "#" gains exactly one
\* "#" and a line with 0 or with 6 or more leading "#" is left untouched.
C6_HeaderShifting ==
    \A k \in 1..Len(resolved) :
        (IsLinkOrInclude(resolved[k]) /\ mode \in {"Static", "Spoiler"})
        => ExtractedPart(resolved[k])
             = CappedShiftAndJoin(
                   IncludeCaptures(FileAt(fs, resolved[k].path).text, 1))

\* C7: in Dynamic mode a tag {{link or include|./<dirpath><filename>}} becomes
\* the link to ./<dirpath><filename> labelled <filename>, and the pass opens no
\* file and cannot fail on a fragment.
C7_DynamicLink ==
    mode = "Dynamic" =>
        /\ \A k \in 1..Len(resolved) :
              (IsLinkOrInclude(resolved[k]) /\ resolved[k].tag[2] = DOT)
              => resolved[k].text
                   = <<MIG>> \o TagFileName(resolved[k].tag) \o <<LNK>>
                       \o TagPath(resolved[k].tag) \o <<RP>>
        /\ pc = "link_or_include" => reads = <<>>
        /\ (pc = "always_include" /\ pos = 1) => reads = <<>>
        /\ cause # "link or include fragment"
        /\ (pc = "done" /\ orig = PlainText \o LoiTag)
              => output.text = PlainText \o <<MIG, W, MD, LNK, W, SL, W, MD, RP>>

C7_Witness ==
    /\ mode = "Dynamic"
    /\ pc = "done"
    /\ ~FileAt(fs, FragMd).exists
    /\ \E k \in 1..Len(resolved) :
          IsLinkOrInclude(resolved[k]) /\ resolved[k].tag[2] = DOT

\* C8 as stated: the summary of a Spoiler replacement names the canonicalized
\* absolute path of the fragment, the path that is opened.
C8_SpoilerCanonicalPath ==
    \A k \in 1..Len(resolved) :
        (IsLinkOrInclude(resolved[k]) /\ mode = "Spoiler")
        => resolved[k].text
             = <<DETAILS, CONTENTOF>> \o resolved[k].path \o <<SUMEND>>
                 \o StaticIncludingText(FileAt(fs, resolved[k].path).text)
                 \o <<DETEND>>

\* C8 amended: the summary of a Spoiler replacement names the fragment path as
\* joined to the input document's directory, not canonicalized; the fragment
\* opened is the one at the canonical form of that path, and the text wrapped
\* is the text Static mode inserts for the same content.
C8_SpoilerJoinedPath ==
    \A k \in 1..Len(resolved) :
        (IsLinkOrInclude(resolved[k]) /\ mode = "Spoiler")
        => /\ resolved[k].path = Canonicalize(JoinedPath(resolved[k].tag))
           /\ resolved[k].text
                = <<DETAILS, CONTENTOF>> \o JoinedPath(resolved[k].tag) \o <<SUMEND>>
                    \o StaticIncludingText(FileAt(fs, resolved[k].path).text)
                    \o <<DETEND>>

C8_Witness ==
    /\ mode = "Spoiler"
    /\ input_file = <<W, MD>>
    /\ \E k \in 1..Len(resolved) :
          /\ IsLinkOrInclude(resolved[k])
          /\ resolved[k].path # JoinedPath(resolved[k].tag)
          /\ \E i \in 1..(Len(resolved[k].text) - 1) :
                resolved[k].text[i] = HASH /\ resolved[k].text[i + 1] = HASH

\* C9: an {{include|...}} tag is replaced by the whole content of the file it
\* names, unmodified, in every mode; every such tag of the original input is
\* resolved; and for a fragment without markers a Static link-or-include tag
\* inserts the empty text where always-include inserts the whole fragment.
C9_AlwaysIncludeRaw ==
    /\ \A k \in 1..Len(resolved) :
          IsInclude(resolved[k])
          => /\ resolved[k].path = Canonicalize(JoinedPath(resolved[k].tag))
             /\ resolved[k].text = FileAt(fs, resolved[k].path).text
    /\ \A k \in 1..Len(resolved) :
          ( /\ IsLinkOrInclude(resolved[k])
            /\ mode = "Static"
            /\ Markers(FileAt(fs, resolved[k].path).text) = <<>> )
          => resolved[k].text = <<>>
    /\ pc \in {"open_output", "write_output", "done"}
          => CountResolved("include") >= CountAlwaysInclude(orig, 1)

C9_Witness ==
    /\ pc = "done"
    /\ mode = "Static"
    /\ \E j \in 1..Len(resolved), k \in 1..Len(resolved) :
          /\ IsLinkOrInclude(resolved[j])
          /\ IsInclude(resolved[k])
          /\ resolved[j].path = resolved[k].path
          /\ Markers(FileAt(fs, resolved[k].path).text) = <<>>
          /\ resolved[j].text = <<>>
          /\ resolved[k].text # <<>>

====
